---- MODULE Spec2Model ----
(***************************************************************************)
(* The key-storage dispatcher of webcrypto-local (KeyStorageService) as a  *)
(* state machine: Sessions dispatch Actions to KeyStorageService.onMessage *)
(* which resolves the provider, consults the shared memory storage (the    *)
(* Handle Registry), calls the provider's keyStorage and builds a Result.  *)
(*                                                                         *)
(* onMessage is an async function.  Its steps here are the stretches of    *)
(* code between the awaits at which the handlers of other Sessions can run *)
(* and touch shared state (the memory storage, the providers' storages):   *)
(*   Dispatch      entry of onMessage up to the provider call              *)
(*   <X>Call       the awaited crypto.keyStorage.<x>(...) and, for all     *)
(*                 but getItem, the rest of the case                       *)
(*   GetItemAdd    lines 99-104: new ServiceCryptoItem, add, toProto       *)
(*   GetItemExport the awaited exportProto of line 104 and the return      *)
(*   Deliver       the Session hands the Result to the connection          *)
(*                                                                         *)
(* The client's SubtleCrypto (SpecClient) is a second state machine over   *)
(* the same module: one call at a time, from its argument checks through   *)
(* the native digest attempt and the request to the value it returns.      *)
(***************************************************************************)
EXTENDS Naturals, FiniteSets, Sequences, TLC

\* ------------------------------------------------------------------ bounds
MaxKeys == 2
MaxHandles == 2
MaxActions == 3
MaxText == 2

\* ------------------------------------------------------------------ values
Sessions == {"s1", "s2"}

\* session.headers.origin of each connection
Origin(s) == IF s = "s1" THEN "https://a.example" ELSE "https://b.example"

\* The Provider Directory: the providers registered at start.  "ossl" is the
\* OpenSSLCrypto provider (Software, isHardware: false), "pv" the PvCrypto
\* provider (Hybrid).  No other id resolves.
ProviderIds == {"ossl", "pv"}
UnknownProvider == "gone"
Variant(p) == IF p = "pv" THEN "Hybrid" ELSE "Software"

\* Key material held by providers (0 is no key: null); a stored key's
\* storage key (its index) names it.  Handle ids and correlation ids count
\* from 1 (0 is none).
Keys == 1..MaxKeys
HandleIds == 1..MaxHandles
ActionIds == 1..MaxActions

\* key.usages of a live key
KeyUsages(k) == IF k = 1 THEN <<"sign", "verify">> ELSE <<"encrypt">>

\* Array.prototype.join(", ")
RECURSIVE Join(_)
Join(usages) ==
    IF usages = <<>> THEN <<>>
    ELSE IF Len(usages) = 1 THEN <<usages[1]>>
    ELSE <<usages[1], ", ">> \o Join(Tail(usages))

\* key.algorithm of a live key: a codec object (an AlgorithmProto, which has
\* a toAlgorithm method) or a plain Algorithm object.  Key 1 carries the
\* codec form, as a key does whose descriptor was decoded from the wire.
KeyAlgorithm(k) ==
    IF k = 1 THEN [name |-> "HMAC", proto |-> TRUE]
    ELSE [name |-> "AES-GCM", proto |-> FALSE]

\* AlgorithmProto.toAlgorithm(): the plain Algorithm object of a codec object
toAlgorithm(alg) == [name |-> alg.name, proto |-> FALSE]

KeyStorageCodes ==
    {"keyStorage/keys", "keyStorage/indexOf", "keyStorage/getItem",
     "keyStorage/setItem", "keyStorage/removeItem", "keyStorage/clear"}
OtherCodes == {"crypto/subtle/digest", "certStorage/keys"}

\* The optional members of a getItem action: params.algorithm (an
\* AlgorithmProto, empty when the client named none), params.extractable and
\* params.keyUsages; and `undefined` as each is passed on to the provider.
EmptyAlgorithm == [name |-> "", proto |-> TRUE]
UndefinedAlgorithm == [name |-> "undefined", proto |-> FALSE]
UndefinedUsages == [kind |-> "undefined", list |-> <<>>]
GetItemParams ==
    [algorithm : {EmptyAlgorithm, [name |-> "HMAC", proto |-> TRUE]},
     extractable : {"undefined", "false", "true"},
     keyUsages : {UndefinedUsages, [kind |-> "array", list |-> <<>>],
                  [kind |-> "array", list |-> <<"sign", "verify">>]}]
\* a getItem action that names the storage key only
NoParams ==
    [algorithm |-> EmptyAlgorithm, extractable |-> "undefined",
     keyUsages |-> UndefinedUsages]

\* The Actions a client can send: getItem and removeItem name a storage key,
\* setItem and indexOf name a handle id.  A malformed payload has no readable
\* fields; an action of another service is read no further than its code.
ActionInputs ==
    [code : {"keyStorage/getItem", "keyStorage/removeItem"},
     providerID : ProviderIds \cup {UnknownProvider},
     key : Keys, item : {0}, wellFormed : {TRUE}, params : {NoParams}]
    \cup
    [code : {"keyStorage/setItem", "keyStorage/indexOf"},
     providerID : ProviderIds \cup {UnknownProvider},
     key : {0}, item : HandleIds, wellFormed : {TRUE}, params : {NoParams}]
    \cup
    [code : {"keyStorage/keys", "keyStorage/clear"},
     providerID : ProviderIds \cup {UnknownProvider},
     key : {0}, item : {0}, wellFormed : {TRUE}, params : {NoParams}]
    \cup
    [code : OtherCodes, providerID : {"ossl", UnknownProvider},
     key : {0}, item : {0}, wellFormed : {TRUE}, params : {NoParams}]
    \cup
    [code : KeyStorageCodes, providerID : {UnknownProvider},
     key : {0}, item : {0}, wellFormed : {FALSE}, params : {NoParams}]

\* the getItem actions with their optional members
GetItemInputs ==
    [code : {"keyStorage/getItem"}, providerID : ProviderIds,
     key : Keys, item : {0}, wellFormed : {TRUE}, params : GetItemParams]

NoAction == [id |-> 0, code |-> "none", providerID |-> "none", key |-> 0,
             item |-> 0, wellFormed |-> TRUE, params |-> NoParams]

\* ------------------------------------------------------------------ errors
NoError == [code |-> "none", message |-> <<>>]
Err(code, message) == [code |-> code, message |-> message]

\* new WebCryptoLocalError(CODE.ACTION_NOT_IMPLEMENTED,
\*                         `Action '${action.action}' is not implemented`)
ActionNotImplemented(code) ==
    Err("ActionNotImplemented", <<"Action '", code, "' is not implemented">>)

\* ------------------------------------------------------------------ results
\* ResultProto.data: absent, or the bytes the handler stored in it
NoData == [type |-> "absent"]

\* Convert.FromUtf8String(index): the UTF-8 bytes of a storage key
FromUtf8String(index) == [type |-> "utf8", index |-> index]

\* ArrayStringConverter.set(keys): the list of storage keys, serialised
ArrayString(keys) == [type |-> "strings", keys |-> keys]

\* ServiceCryptoItem.toProto().exportProto(): the wire projection of a
\* registry item: its id, its provider id and the key's public descriptors
ToProto(item) ==
    [type |-> "key", id |-> item.id, providerID |-> item.providerID,
     usages |-> KeyUsages(item.item)]

NoResult == [data |-> NoData, error |-> NoError]
NoTrace == [lookup |-> FALSE, threw |-> FALSE]

\* a call of a provider's keyStorage: the method, the provider, its arguments
NoOptions == [pinFriendlyName |-> "undefined", pinDescription |-> <<>>]
\* the second to fourth argument of keyStorage.getItem
NoFilters ==
    [algorithm |-> UndefinedAlgorithm, extractable |-> "undefined",
     keyUsages |-> UndefinedUsages]
NoCall ==
    [method |-> "none", crypto |-> "none", arg |-> 0, options |-> NoOptions,
     filters |-> NoFilters]
KeyStorageCall(method, crypto, arg, options, filters) ==
    [method |-> method, crypto |-> crypto, arg |-> arg, options |-> options,
     filters |-> filters]

\* a handler's outcome: it returns its ResultProto or it throws
Return(data) == [kind |-> "return", data |-> data, error |-> NoError]
Throw(error) == [kind |-> "throw", data |-> NoData, error |-> error]

\* ------------------------------------------------- the client's SubtleCrypto
\* this.service.id: the provider the client's SocketCrypto stands for
ServiceId == "ossl"

\* Arguments as a caller can pass them.  An algorithm is a string, an object
\* with a name, an object without one, or null.
\* Its `public` member, where it has one, is the other party's key: a
\* CryptoKeyProto, some other object, or (NoPublic) not there at all.
NoPublic == [kind |-> "undefined", id |-> 0]
AlgorithmArgs ==
    {[kind |-> "string", name |-> "SHA-256", public |-> NoPublic],
     [kind |-> "object", name |-> "HMAC", public |-> NoPublic],
     [kind |-> "object", name |-> "RSA-PSS", public |-> NoPublic],
     [kind |-> "objectNoName", name |-> "undefined", public |-> NoPublic],
     [kind |-> "null", name |-> "undefined", public |-> NoPublic]}
AnAlgorithm == [kind |-> "object", name |-> "HMAC", public |-> NoPublic]

\* the algorithm of a derivation: any of the above, PBKDF2 (no `public`
\* member), or ECDH with a `public` that is a key handle or is not one
DeriveAlgorithmArgs ==
    AlgorithmArgs \cup
    {[kind |-> "object", name |-> "PBKDF2", public |-> NoPublic],
     [kind |-> "object", name |-> "ECDH",
      public |-> [kind |-> "CryptoKeyProto", id |-> 2]],
     [kind |-> "object", name |-> "ECDH", public |-> [kind |-> "object", id |-> 0]]}

\* a key argument: a CryptoKeyProto (a handle) or some other object
CryptoKeyArgs == {[kind |-> "CryptoKeyProto", id |-> 1], [kind |-> "object", id |-> 0]}
ACryptoKey == [kind |-> "CryptoKeyProto", id |-> 1]

\* a data argument: an ArrayBuffer, a view on part of one, or no BufferSource
BufferArgs ==
    {[kind |-> "ArrayBuffer", bytes |-> <<>>, byteOffset |-> 0, byteLength |-> 0],
     [kind |-> "ArrayBuffer", bytes |-> <<1>>, byteOffset |-> 0, byteLength |-> 1],
     [kind |-> "view", bytes |-> <<0, 1>>, byteOffset |-> 1, byteLength |-> 1],
     [kind |-> "string", bytes |-> <<>>, byteOffset |-> 0, byteLength |-> 0]}
ABuffer == [kind |-> "ArrayBuffer", bytes |-> <<1>>, byteOffset |-> 0, byteLength |-> 1]

\* a JsonWebKey argument, held as its JSON text: a sequence of code points
\* ("A" is 65, "e" with acute accent is 233)
CodePoints == {65, 233}
RECURSIVE Texts(_)
Texts(n) ==
    IF n = 0 THEN {<<>>}
    ELSE Texts(n - 1) \cup
         {Append(x, c) : x \in {y \in Texts(n - 1) : Len(y) = n - 1}, c \in CodePoints}
JwkArgs ==
    {[kind |-> "jwk", bytes |-> x, byteOffset |-> 0, byteLength |-> 0] :
        x \in Texts(MaxText) \ {<<>>}}

\* primitive arguments: a format, an extractable flag, a length, a usage list
FormatArgs ==
    {[kind |-> "string", value |-> "raw"], [kind |-> "string", value |-> "jwk"],
     [kind |-> "undefined", value |-> "undefined"]}
AFormat == [kind |-> "string", value |-> "raw"]
ExtractableArgs ==
    {[kind |-> "boolean", value |-> "true"], [kind |-> "string", value |-> "yes"]}
AnExtractable == [kind |-> "boolean", value |-> "true"]
LengthArgs ==
    {[kind |-> "number", value |-> "128"], [kind |-> "undefined", value |-> "undefined"]}
ALength == [kind |-> "number", value |-> "128"]
UsagesArgs ==
    {[kind |-> "array", list |-> <<"sign", "verify">>],
     [kind |-> "string", list |-> <<>>]}
SomeUsages == [kind |-> "array", list |-> <<"sign", "verify">>]

\* one call of a SubtleCrypto method: its name, its arguments, and whether
\* the page has a native crypto (self.crypto)
OpDefault ==
    [name |-> "none", algorithm |-> AnAlgorithm, algorithm2 |-> AnAlgorithm,
     key |-> ACryptoKey, key2 |-> ACryptoKey, data |-> ABuffer,
     data2 |-> ABuffer, format |-> AFormat, extractable |-> AnExtractable,
     keyUsages |-> SomeUsages, length |-> ALength, selfCrypto |-> FALSE]

ClientInputs ==
    {[OpDefault EXCEPT !.name = n, !.algorithm = a, !.key = k, !.data = d] :
        n \in {"encrypt", "decrypt", "sign"}, a \in AlgorithmArgs,
        k \in CryptoKeyArgs, d \in BufferArgs}
    \cup
    {[OpDefault EXCEPT !.name = "verify", !.algorithm = a, !.key = k,
                       !.data2 = g, !.data = d] :
        a \in AlgorithmArgs, k \in CryptoKeyArgs, g \in BufferArgs,
        d \in BufferArgs}
    \cup
    {[OpDefault EXCEPT !.name = "deriveBits", !.algorithm = a, !.key = k,
                       !.length = l] :
        a \in DeriveAlgorithmArgs, k \in CryptoKeyArgs, l \in LengthArgs}
    \cup
    {[OpDefault EXCEPT !.name = "deriveKey", !.algorithm = a, !.key = k,
                       !.algorithm2 = b, !.extractable = e, !.keyUsages = u] :
        a \in DeriveAlgorithmArgs, k \in CryptoKeyArgs, b \in AlgorithmArgs,
        e \in ExtractableArgs, u \in UsagesArgs}
    \cup
    {[OpDefault EXCEPT !.name = "digest", !.algorithm = a, !.data = d,
                       !.selfCrypto = c] :
        a \in AlgorithmArgs, d \in BufferArgs, c \in BOOLEAN}
    \cup
    {[OpDefault EXCEPT !.name = "generateKey", !.algorithm = a,
                       !.extractable = e, !.keyUsages = u] :
        a \in AlgorithmArgs, e \in ExtractableArgs, u \in UsagesArgs}
    \cup
    {[OpDefault EXCEPT !.name = "exportKey", !.format = f, !.key = k] :
        f \in FormatArgs, k \in CryptoKeyArgs}
    \cup
    {[OpDefault EXCEPT !.name = "importKey", !.format = f, !.data = d,
                       !.algorithm = a, !.extractable = e, !.keyUsages = u] :
        f \in FormatArgs, d \in BufferArgs \cup JwkArgs, a \in AlgorithmArgs,
        e \in ExtractableArgs, u \in UsagesArgs}
    \cup
    {[OpDefault EXCEPT !.name = "wrapKey", !.format = f, !.key = k,
                       !.key2 = w, !.algorithm = a] :
        f \in FormatArgs, k \in CryptoKeyArgs, w \in CryptoKeyArgs,
        a \in AlgorithmArgs}
    \cup
    {[OpDefault EXCEPT !.name = "unwrapKey", !.format = f, !.data = d,
                       !.key = k, !.algorithm = a, !.algorithm2 = b,
                       !.extractable = e, !.keyUsages = u] :
        f \in FormatArgs, d \in BufferArgs, k \in CryptoKeyArgs,
        a \in AlgorithmArgs,
        b \in {AnAlgorithm, [kind |-> "null", name |-> "undefined", public |-> NoPublic]},
        e \in ExtractableArgs, u \in UsagesArgs}

\* utils.check*: the argument checks; each passes or throws a TypeError
TypeError(param) == Err("TypeError", <<param>>)
checkAlgorithm(algorithm, param) ==
    IF algorithm.kind \in {"string", "object"} THEN NoError ELSE TypeError(param)
checkCryptoKey(k, param) ==
    IF k.kind = "CryptoKeyProto" THEN NoError ELSE TypeError(param)
checkBufferSource(data, param) ==
    IF data.kind \in {"ArrayBuffer", "view"} THEN NoError ELSE TypeError(param)
checkPrimitive(data, type, param) ==
    IF data.kind = type THEN NoError ELSE TypeError(param)
checkArray(data, param) ==
    IF data.kind = "array" THEN NoError ELSE TypeError(param)

\* utils.prepareAlgorithm: the AlgorithmProto of an algorithm identifier,
\* with the identifier's members
prepareAlgorithm(algorithm) ==
    [kind |-> "AlgorithmProto", name |-> algorithm.name, public |-> algorithm.public]

\* CryptoKeyProto.exportProto: the wire form of a key handle
exportProto(k) == [kind |-> "exported", id |-> k.id]

\* core.BufferSourceConverter.toArrayBuffer: the bytes a BufferSource covers
toArrayBuffer(data) ==
    SubSeq(data.bytes, data.byteOffset + 1, data.byteOffset + data.byteLength)

\* JSON.stringify of a key-data argument, as code points: the text of a
\* JsonWebKey; "{}" for an ArrayBuffer or a view
JsonStringify(keyData) == IF keyData.kind = "jwk" THEN keyData.bytes ELSE <<123, 125>>
\* JSON.parse of a text
JsonParse(text) == [kind |-> "jwk", bytes |-> text, byteOffset |-> 0, byteLength |-> 0]

\* Convert.FromUtf8String on code points: the UTF-8 bytes of a string
RECURSIVE Utf8Bytes(_)
Utf8Bytes(text) ==
    IF text = <<>> THEN <<>>
    ELSE (IF Head(text) < 128 THEN <<Head(text)>>
          ELSE <<192 + (Head(text) \div 64), 128 + (Head(text) % 64)>>)
         \o Utf8Bytes(Tail(text))

\* Convert.ToBinary: one character per byte, String.fromCharCode(byte)
ToBinary(bytes) == [i \in 1..Len(bytes) |-> bytes[i]]

\* a result payload (an ArrayBuffer): plain bytes, or an encoded message
\* with the fields it carries; `shape` is what the service encoded
NoPayload ==
    [bytes |-> <<>>, fields |-> {}, shape |-> "bytes", algorithm |-> "none",
     usages |-> <<>>]
NoAnswer == [error |-> NoError, data |-> NoPayload]

\* what a call of a SubtleCrypto method ends with: a value or a rejection
NoOutcome ==
    [kind |-> "none", type |-> "none", payload |-> NoPayload, bool |-> FALSE,
     error |-> NoError]
Resolve(type, payload, bool) ==
    [kind |-> "resolve", type |-> type, payload |-> payload, bool |-> bool,
     error |-> NoError]
Reject(error) ==
    [kind |-> "reject", type |-> "error", payload |-> NoPayload, bool |-> FALSE,
     error |-> error]

\* ------------------------------------------------------------------ state
VARIABLES
    keyStorage,     \* provider id -> the storage keys its keyStorage holds
    memoryStorage,  \* the Handle Registry: handle id -> ServiceCryptoItem
    nextId,         \* the next fresh handle id
    nextAction,     \* the next correlation id
    pc,             \* per Session: where its handler stands
    action,         \* per Session: the Action being handled
    key,            \* per Session: the handler's local `key` (0: null)
    added,          \* per Session: id of the item this handler added (0: none)
    trace,          \* per Session: what the handler has done so far
    result,         \* per Session: the Result emitted for its Action
    emitted,        \* correlation id -> number of Results emitted for it
    inserted,       \* handle id -> the key inserted under it (0: never)
    call,           \* per Session: the call its handler made to keyStorage
    algorithm,      \* key -> the `algorithm` field of the live key object
    clientPc,       \* the client: where its SubtleCrypto call stands
    clientOp,       \* the client: the call being made
    clientSent,     \* the client: the actions the call has sent
    clientNative,   \* the client: how the native digest attempt ended
    clientAnswer,   \* the client: what the service answered
    clientOutcome   \* the client: what the call returned or threw

vars == <<keyStorage, memoryStorage, nextId, nextAction, pc, action, key,
          added, trace, result, emitted, inserted, call, algorithm,
          clientPc, clientOp, clientSent, clientNative, clientAnswer,
          clientOutcome>>

serviceVars == <<keyStorage, memoryStorage, nextId, nextAction, pc, action,
                 key, added, trace, result, emitted, inserted, call, algorithm>>
clientVars == <<clientPc, clientOp, clientSent, clientNative, clientAnswer,
                clientOutcome>>

\* ------------------------------------------------- collaborators of onMessage
\* P.KeyStorage<X>ActionProto.importProto(action): decoding fails on a
\* malformed payload
importProto(a) ==
    IF a.wellFormed THEN NoError ELSE Err("BadParameters", <<"malformed">>)

\* Provider Directory resolve(provider_id)
ProviderResolve(id) ==
    IF id \in ProviderIds THEN NoError
    ELSE Err("ProviderNotFound", <<"Cannot get crypto by given ID">>)

\* KeyStorageService.getCrypto: this.object.getCrypto(id)
getCrypto(id) == ProviderResolve(id)

\* KeyStorageService.getMemoryStorage: the one process-wide memory storage
getMemoryStorage == memoryStorage

\* MemoryStorage.item(id): the item, or it throws
MemoryStorageItem(items, id) ==
    IF id \in DOMAIN items THEN NoError
    ELSE Err("HandleNotFound", <<"Cannot get crypto item by ID">>)

\* new ServiceCryptoItem(key, providerID): the item under a fresh id
ServiceCryptoItem(id, k, providerID) ==
    [id |-> id, item |-> k, providerID |-> providerID]

\* MemoryStorage.add(item)
MemoryStorageAdd(items, item) ==
    [i \in DOMAIN items \cup {item.id} |->
        IF i = item.id THEN item ELSE items[i]]

\* the provider's keyStorage over the set of storage keys it holds
StorageGetItem(store, index) == IF index \in store THEN index ELSE 0
StorageSetItem(store, k) == store \cup {k}
StorageIndexOf(store, k) == IF k \in store THEN k ELSE 0
StorageRemoveItem(store, index) == store \ {index}
StorageKeys(store) == store
StorageClear(store) == {}

\* a native failure of a provider operation
ProviderError == Err("ProviderOperationFailed", <<"native failure">>)
\* a failure of CryptoKeyProto.exportProto
ExportError == Err("ProviderOperationFailed", <<"exportProto failed">>)

\* The Service boundary around onMessage: a returned ResultProto is sent as
\* it is, a thrown error becomes the Result's error.
ServiceBoundary(outcome) ==
    IF outcome.kind = "return"
    THEN [data |-> outcome.data, error |-> NoError]
    ELSE [data |-> NoData, error |-> outcome.error]

\* ------------------------------------------------------------ onMessage
\* the first error of the awaited steps, in the order the code runs them
RECURSIVE First(_)
First(errors) ==
    IF errors = <<>> THEN NoError
    ELSE IF Head(errors) # NoError THEN Head(errors)
    ELSE First(Tail(errors))

\* what the code before the provider call leaves: the error it threw (if
\* any), whether it consulted the memory storage, and its local `key`
Prepared(error, lookup, k) ==
    [error |-> error, lookup |-> lookup, key |-> IF error = NoError THEN k ELSE 0]

\* case getItem: importProto, getCrypto
GetItemPrepare(a, items) ==
    Prepared(First(<<importProto(a), getCrypto(a.providerID)>>), FALSE, 0)

\* Variant: setItem resolves whatever item the storage holds first, not the
\* one the handle id names
SetItemPrepareAnyItem(a, items) ==
    Prepared(First(<<importProto(a),
                     IF DOMAIN items # {} THEN NoError
                     ELSE MemoryStorageItem(items, a.item),
                     getCrypto(a.providerID)>>),
             importProto(a) = NoError,
             IF DOMAIN items # {}
             THEN items[CHOOSE i \in DOMAIN items :
                          \A j \in DOMAIN items : i <= j].item
             ELSE 0)

\* case setItem: importProto, getMemoryStorage().item(id), getCrypto
SetItemPrepare(a, items) ==
    Prepared(First(<<importProto(a), MemoryStorageItem(items, a.item),
                     getCrypto(a.providerID)>>),
             importProto(a) = NoError,
             IF a.item \in DOMAIN items THEN items[a.item].item ELSE 0)

\* case removeItem: importProto, getCrypto
RemoveItemPrepare(a, items) ==
    Prepared(First(<<importProto(a), getCrypto(a.providerID)>>), FALSE, 0)

\* case keys: importProto, getCrypto
KeysPrepare(a, items) ==
    Prepared(First(<<importProto(a), getCrypto(a.providerID)>>), FALSE, 0)

\* Variant: indexOf goes on with an undefined key when the handle id is not
\* in the memory storage
IndexOfPrepareUnchecked(a, items) ==
    Prepared(First(<<importProto(a), getCrypto(a.providerID)>>),
             importProto(a) = NoError /\ getCrypto(a.providerID) = NoError,
             IF a.item \in DOMAIN items THEN items[a.item].item ELSE 0)

\* case indexOf: importProto, getCrypto, getMemoryStorage().item(id)
IndexOfPrepare(a, items) ==
    Prepared(First(<<importProto(a), getCrypto(a.providerID),
                     MemoryStorageItem(items, a.item)>>),
             importProto(a) = NoError /\ getCrypto(a.providerID) = NoError,
             IF a.item \in DOMAIN items THEN items[a.item].item ELSE 0)

\* case clear: importProto, getCrypto
ClearPrepare(a, items) ==
    Prepared(First(<<importProto(a), getCrypto(a.providerID)>>), FALSE, 0)

\* Variant: the default case's message does not name the action code
DefaultCaseUnnamed(a, items) ==
    Prepared(ActionNotImplemented("action"), FALSE, 0)

\* default: throw ACTION_NOT_IMPLEMENTED
DefaultCase(a, items) ==
    Prepared(ActionNotImplemented(a.code), FALSE, 0)

\* switch (action.action)
Prepare(a, items) ==
    CASE a.code = "keyStorage/getItem"    -> GetItemPrepare(a, items)
      [] a.code = "keyStorage/setItem"    -> SetItemPrepare(a, items)
      [] a.code = "keyStorage/removeItem" -> RemoveItemPrepare(a, items)
      [] a.code = "keyStorage/keys"       -> KeysPrepare(a, items)
      [] a.code = "keyStorage/indexOf"    -> IndexOfPrepare(a, items)
      [] a.code = "keyStorage/clear"      -> ClearPrepare(a, items)
      [] OTHER                            -> DefaultCase(a, items)

\* setItem: the optional parameters passed to crypto.keyStorage.setItem
SetItemOptions(s, crypto, k) ==
    IF Variant(crypto) = "Hybrid"   \* crypto instanceof PvCrypto
    THEN [pinFriendlyName |-> Origin(s), pinDescription |-> Join(KeyUsages(k))]
    ELSE NoOptions

\* setItem, lines 114-116: if (key.algorithm.toAlgorithm)
\*                           key.algorithm = key.algorithm.toAlgorithm()
SetItemAlgorithm(alg) == IF alg.proto THEN toAlgorithm(alg) ELSE alg

\* Variant: params.extractable is passed on as it is
GetItemExtractableAsIs(extractable) == extractable

\* getItem, line 95: params.extractable || undefined
GetItemExtractable(extractable) ==
    IF extractable = "true" THEN "true" ELSE "undefined"
\* getItem, lines 92-97: what follows params.key in the provider call:
\*   params.algorithm.isEmpty() ? undefined : params.algorithm.toAlgorithm(),
\*   params.extractable || undefined,
\*   !params.keyUsages ? undefined : params.keyUsages
GetItemFilters(params) ==
    [algorithm |-> IF params.algorithm = EmptyAlgorithm THEN UndefinedAlgorithm
                   ELSE toAlgorithm(params.algorithm),
     extractable |-> GetItemExtractable(params.extractable),
     keyUsages |-> IF params.keyUsages.kind = "undefined" THEN UndefinedUsages
                   ELSE params.keyUsages]

\* Variant: removeItem answers with the storage key it removed
RemoveItemDataKey == FromUtf8String(0)

\* Variant: setItem answers with no storage key
SetItemDataEmpty(index) == FromUtf8String(0)

\* result.data of each case
GetItemData(cryptoKey) == ToProto(cryptoKey)
SetItemData(index) == FromUtf8String(index)
RemoveItemData == NoData
KeysData(keys) == ArrayString(keys)
IndexOfData(index) == IF index # 0 THEN FromUtf8String(index) ELSE NoData
ClearData == NoData

\* Variant: removeItem empties the provider's storage
RemoveItemStorageCleared(store, index) == StorageClear(store)

\* removeItem, line 135: await crypto.keyStorage.removeItem(params.key)
RemoveItemStorage(store, index) == StorageRemoveItem(store, index)

\* Variant: clear also empties the memory storage
ClearMemoryStorageEmptied(items) == <<>>

\* clear, lines 163-172: the memory storage is not touched
ClearMemoryStorage(items) == items

\* Variant: onMessage swallows a rejected provider call and returns its
\* empty ResultProto
OnProviderThrowSwallowed(error) == Return(NoData)

\* a rejected provider call is not caught in onMessage: it leaves it
OnProviderThrow(error) == Throw(error)

\* Variant: getItem returns the projection without adding the item
GetItemAddedNothing(items, cryptoKey) == items

\* Variant: the item is stored under an id derived from the key alone
GetItemAddedByKey(items, cryptoKey) ==
    MemoryStorageAdd(items, [cryptoKey EXCEPT !.id = cryptoKey.item])

\* getItem: a found key is added to the memory storage
GetItemAdded(items, cryptoKey) == MemoryStorageAdd(items, cryptoKey)

\* ------------------------------------------------------------------ Init
\* The providers' storages are persistent: they start with what earlier runs
\* left in them.  The memory storage starts empty.
Init ==
    /\ keyStorage = [p \in ProviderIds |-> IF p = "ossl" THEN Keys ELSE {}]
    /\ memoryStorage = <<>>
    /\ nextId = 1
    /\ nextAction = 1
    /\ pc = [s \in Sessions |-> "idle"]
    /\ action = [s \in Sessions |-> NoAction]
    /\ key = [s \in Sessions |-> 0]
    /\ added = [s \in Sessions |-> 0]
    /\ trace = [s \in Sessions |-> NoTrace]
    /\ result = [s \in Sessions |-> NoResult]
    /\ emitted = [i \in ActionIds |-> 0]
    /\ inserted = [i \in HandleIds |-> 0]
    /\ call = [s \in Sessions |-> NoCall]
    /\ algorithm = [k \in Keys |-> KeyAlgorithm(k)]
    /\ clientPc = "idle"
    /\ clientOp = OpDefault
    /\ clientSent = <<>>
    /\ clientNative = "none"
    /\ clientAnswer = NoAnswer
    /\ clientOutcome = NoOutcome

\* ------------------------------------------------------------------ steps
\* the Result of the Session's Action is emitted
Emit(s, id, outcome) ==
    /\ pc' = [pc EXCEPT ![s] = "done"]
    /\ result' = [result EXCEPT ![s] = ServiceBoundary(outcome)]
    /\ emitted' = [emitted EXCEPT ![id] = @ + 1]

\* the call of the provider's keyStorage that the handler at "call" makes
MethodOf(code) ==
    CASE code = "keyStorage/getItem"    -> "getItem"
      [] code = "keyStorage/setItem"    -> "setItem"
      [] code = "keyStorage/removeItem" -> "removeItem"
      [] code = "keyStorage/keys"       -> "keys"
      [] code = "keyStorage/indexOf"    -> "indexOf"
      [] code = "keyStorage/clear"      -> "clear"
CallOf(s) ==
    LET a == action[s]
    IN  KeyStorageCall(MethodOf(a.code), a.providerID,
            IF a.code \in {"keyStorage/setItem", "keyStorage/indexOf"}
            THEN key[s] ELSE a.key,
            IF a.code = "keyStorage/setItem"
            THEN SetItemOptions(s, a.providerID, key[s]) ELSE NoOptions,
            IF a.code = "keyStorage/getItem"
            THEN GetItemFilters(a.params) ELSE NoFilters)

\* Deliver touches nothing but the Session's own record of its last Action,
\* so it commutes with every step of another Session: it is taken first.
Returning == \E s \in Sessions : pc[s] = "done"

\* getItem handlers that may still add an item
PendingAdds ==
    Cardinality({s \in Sessions :
        action[s].code = "keyStorage/getItem" /\ pc[s] \in {"call", "got"}})

\* A Session receives an Action and onMessage runs up to its provider call.
Dispatch(s, a) ==
    /\ ~Returning
    /\ pc[s] = "idle"
    /\ nextAction <= MaxActions
    /\ a.code = "keyStorage/getItem" => nextId + PendingAdds <= MaxHandles
    /\ LET act == [id |-> nextAction, code |-> a.code,
                   providerID |-> a.providerID, key |-> a.key,
                   item |-> a.item, wellFormed |-> a.wellFormed,
                   params |-> a.params]
           p == Prepare(act, getMemoryStorage)
       IN  /\ action' = [action EXCEPT ![s] = act]
           /\ nextAction' = nextAction + 1
           /\ key' = [key EXCEPT ![s] = p.key]
           /\ trace' = [trace EXCEPT ![s].lookup = p.lookup]
           /\ IF p.error = NoError
              THEN /\ pc' = [pc EXCEPT ![s] = "call"]
                   /\ UNCHANGED <<result, emitted>>
              ELSE Emit(s, act.id, Throw(p.error))
           /\ algorithm' =
                IF act.code = "keyStorage/setItem" /\ p.error = NoError
                THEN [algorithm EXCEPT ![p.key] = SetItemAlgorithm(@)]
                ELSE algorithm
    /\ UNCHANGED <<keyStorage, memoryStorage, nextId, added, inserted,
                   call>>
    /\ UNCHANGED clientVars

\* The awaited provider call rejects.
ProviderThrows(s) ==
    /\ ~Returning
    /\ pc[s] = "call"
    /\ trace' = [trace EXCEPT ![s].threw = TRUE]
    /\ call' = [call EXCEPT ![s] = CallOf(s)]
    /\ Emit(s, action[s].id, OnProviderThrow(ProviderError))
    /\ UNCHANGED <<keyStorage, memoryStorage, nextId, nextAction, action, key,
                   added, inserted>>
    /\ UNCHANGED algorithm
    /\ UNCHANGED clientVars

\* crypto.keyStorage.getItem(params.key, ...) resolves.
GetItemCall(s) ==
    /\ ~Returning
    /\ pc[s] = "call"
    /\ action[s].code = "keyStorage/getItem"
    /\ key' = [key EXCEPT ![s] =
                 StorageGetItem(keyStorage[action[s].providerID], action[s].key)]
    /\ call' = [call EXCEPT ![s] = CallOf(s)]
    /\ pc' = [pc EXCEPT ![s] = "got"]
    /\ UNCHANGED <<keyStorage, memoryStorage, nextId, nextAction, action,
                   added, result, emitted, inserted, trace>>
    /\ UNCHANGED algorithm
    /\ UNCHANGED clientVars

\* if (key) { new ServiceCryptoItem; add; toProto().exportProto() } else return
GetItemAdd(s) ==
    /\ ~Returning
    /\ pc[s] = "got"
    /\ IF key[s] # 0
       THEN LET cryptoKey ==
                    ServiceCryptoItem(nextId, key[s], action[s].providerID)
            IN  /\ memoryStorage' = GetItemAdded(getMemoryStorage, cryptoKey)
                /\ inserted' = [inserted EXCEPT ![nextId] = key[s]]
                /\ added' = [added EXCEPT ![s] = nextId]
                /\ nextId' = nextId + 1
                /\ pc' = [pc EXCEPT ![s] = "export"]
                /\ UNCHANGED <<result, emitted>>
       ELSE /\ Emit(s, action[s].id, Return(NoData))
            /\ UNCHANGED <<memoryStorage, inserted, added, nextId>>
    /\ UNCHANGED <<keyStorage, nextAction, action, key, trace, call,
                   algorithm>>
    /\ UNCHANGED clientVars

\* the awaited exportProto() resolves or rejects; onMessage returns or throws
GetItemExport(s) ==
    /\ ~Returning
    /\ pc[s] = "export"
    /\ \E ok \in BOOLEAN :
         Emit(s, action[s].id,
              IF ok
              THEN Return(GetItemData(
                      ServiceCryptoItem(added[s], key[s], action[s].providerID)))
              ELSE Throw(ExportError))
    /\ UNCHANGED <<keyStorage, memoryStorage, nextId, nextAction, action, key,
                   added, trace, inserted, call>>
    /\ UNCHANGED algorithm
    /\ UNCHANGED clientVars

\* crypto.keyStorage.setItem(key[, options]) resolves; result.data = index
SetItemCall(s) ==
    /\ ~Returning
    /\ pc[s] = "call"
    /\ action[s].code = "keyStorage/setItem"
    /\ LET crypto == action[s].providerID
       IN  /\ keyStorage' = [keyStorage EXCEPT ![crypto] =
                                StorageSetItem(@, key[s])]
           /\ Emit(s, action[s].id, Return(SetItemData(key[s])))
    /\ call' = [call EXCEPT ![s] = CallOf(s)]
    /\ UNCHANGED <<memoryStorage, nextId, nextAction, action, key, added,
                   inserted, trace>>
    /\ UNCHANGED algorithm
    /\ UNCHANGED clientVars

\* crypto.keyStorage.removeItem(params.key) resolves
RemoveItemCall(s) ==
    /\ ~Returning
    /\ pc[s] = "call"
    /\ action[s].code = "keyStorage/removeItem"
    /\ keyStorage' = [keyStorage EXCEPT ![action[s].providerID] =
                        RemoveItemStorage(@, action[s].key)]
    /\ Emit(s, action[s].id, Return(RemoveItemData))
    /\ call' = [call EXCEPT ![s] = CallOf(s)]
    /\ UNCHANGED <<memoryStorage, nextId, nextAction, action, key, added,
                   inserted, trace>>
    /\ UNCHANGED algorithm
    /\ UNCHANGED clientVars

\* crypto.keyStorage.keys() resolves; result.data = the serialised list
KeysCall(s) ==
    /\ ~Returning
    /\ pc[s] = "call"
    /\ action[s].code = "keyStorage/keys"
    /\ Emit(s, action[s].id,
            Return(KeysData(StorageKeys(keyStorage[action[s].providerID]))))
    /\ call' = [call EXCEPT ![s] = CallOf(s)]
    /\ UNCHANGED <<keyStorage, memoryStorage, nextId, nextAction, action, key,
                   added, inserted, trace>>
    /\ UNCHANGED algorithm
    /\ UNCHANGED clientVars

\* crypto.keyStorage.indexOf(key) resolves; if (index) result.data = index
IndexOfCall(s) ==
    /\ ~Returning
    /\ pc[s] = "call"
    /\ action[s].code = "keyStorage/indexOf"
    /\ Emit(s, action[s].id,
            Return(IndexOfData(
                StorageIndexOf(keyStorage[action[s].providerID], key[s]))))
    /\ call' = [call EXCEPT ![s] = CallOf(s)]
    /\ UNCHANGED <<keyStorage, memoryStorage, nextId, nextAction, action, key,
                   added, inserted, trace>>
    /\ UNCHANGED algorithm
    /\ UNCHANGED clientVars

\* crypto.keyStorage.clear() resolves
ClearCall(s) ==
    /\ ~Returning
    /\ pc[s] = "call"
    /\ action[s].code = "keyStorage/clear"
    /\ keyStorage' = [keyStorage EXCEPT ![action[s].providerID] =
                        StorageClear(@)]
    /\ Emit(s, action[s].id, Return(ClearData))
    /\ call' = [call EXCEPT ![s] = CallOf(s)]
    /\ memoryStorage' = ClearMemoryStorage(getMemoryStorage)
    /\ UNCHANGED <<nextId, nextAction, action, key, added,
                   inserted, trace>>
    /\ UNCHANGED algorithm
    /\ UNCHANGED clientVars

\* The Session returns the Result on its connection and is ready again.
Deliver(s) ==
    /\ pc[s] = "done"
    /\ pc' = [pc EXCEPT ![s] = "idle"]
    /\ action' = [action EXCEPT ![s] = NoAction]
    /\ key' = [key EXCEPT ![s] = 0]
    /\ added' = [added EXCEPT ![s] = 0]
    /\ trace' = [trace EXCEPT ![s] = NoTrace]
    /\ result' = [result EXCEPT ![s] = NoResult]
    /\ call' = [call EXCEPT ![s] = NoCall]
    /\ UNCHANGED <<keyStorage, memoryStorage, nextId, nextAction, emitted,
                   inserted>>
    /\ UNCHANGED algorithm
    /\ UNCHANGED clientVars

Next ==
    \/ \E s \in Sessions, a \in ActionInputs : Dispatch(s, a)
    \/ \E s \in Sessions : ProviderThrows(s)
    \/ \E s \in Sessions : GetItemCall(s)
    \/ \E s \in Sessions : GetItemAdd(s)
    \/ \E s \in Sessions : GetItemExport(s)
    \/ \E s \in Sessions : SetItemCall(s)
    \/ \E s \in Sessions : RemoveItemCall(s)
    \/ \E s \in Sessions : KeysCall(s)
    \/ \E s \in Sessions : IndexOfCall(s)
    \/ \E s \in Sessions : ClearCall(s)
    \/ \E s \in Sessions : Deliver(s)

Spec == Init /\ [][Next]_vars

\* ---------------------------------------------- the registry's other users
\* MemoryStorage remove(handle_id), called by the other services
RegistryRemove(id) ==
    /\ ~Returning
    /\ id \in DOMAIN memoryStorage
    /\ memoryStorage' = [i \in DOMAIN memoryStorage \ {id} |-> memoryStorage[i]]
    /\ UNCHANGED <<keyStorage, nextId, nextAction, pc, action, key, added,
                   trace, result, emitted, inserted, call>>
    /\ UNCHANGED algorithm
    /\ UNCHANGED clientVars

\* MemoryStorage clear()
RegistryClear ==
    /\ ~Returning
    /\ DOMAIN memoryStorage # {}
    /\ memoryStorage' = <<>>
    /\ UNCHANGED <<keyStorage, nextId, nextAction, pc, action, key, added,
                   trace, result, emitted, inserted, call>>
    /\ UNCHANGED algorithm
    /\ UNCHANGED clientVars

\* the Actions that consult or fill the Handle Registry
RegistryInputs ==
    {a \in ActionInputs :
        a.code \in {"keyStorage/getItem", "keyStorage/setItem",
                    "keyStorage/indexOf"}}

NextRegistry ==
    \/ \E s \in Sessions, a \in RegistryInputs : Dispatch(s, a)
    \/ \E s \in Sessions : ProviderThrows(s)
    \/ \E s \in Sessions : GetItemCall(s)
    \/ \E s \in Sessions : GetItemAdd(s)
    \/ \E s \in Sessions : GetItemExport(s)
    \/ \E s \in Sessions : SetItemCall(s)
    \/ \E s \in Sessions : IndexOfCall(s)
    \/ \E s \in Sessions : Deliver(s)
    \/ \E id \in HandleIds : RegistryRemove(id)
    \/ RegistryClear

\* the handlers that use the Handle Registry, together with the removals
\* the registry's other users make
SpecRegistry == Init /\ [][NextRegistry]_vars

\* ------------------------------------------- getItem with optional members
\* what the handler passes on depends on nothing but its own action: one
\* Session sends
NextGetItem ==
    \/ \E a \in GetItemInputs : Dispatch("s1", a)
    \/ ProviderThrows("s1")
    \/ GetItemCall("s1")
    \/ GetItemAdd("s1")
    \/ GetItemExport("s1")
    \/ Deliver("s1")

\* the getItem handler under every combination of the optional members of
\* its action
SpecGetItem == Init /\ [][NextGetItem]_vars

\* ------------------------------------------------ SubtleCrypto (the client)
\* an action as the client fills it
NoAlgorithmProto == [kind |-> "AlgorithmProto", name |-> "none", public |-> NoPublic]
NoKeyProto == [kind |-> "CryptoKeyProto", id |-> 0]
NoActionProto ==
    [action |-> "none", providerID |-> "none", algorithm |-> NoAlgorithmProto,
     algorithm2 |-> NoAlgorithmProto, key |-> NoKeyProto, key2 |-> NoKeyProto,
     data |-> <<>>, data2 |-> <<>>, format |-> "none", extractable |-> "none",
     keyUsages |-> <<>>, length |-> "none"]

\* what a method has before it sends: the error its checks threw (if any)
\* and the action it filled
ClientPrepared(error, a) == [error |-> error, action |-> a]

\* encryptData (encrypt, decrypt): lines 293-316
encryptData(op, type) ==
    ClientPrepared(
        First(<<checkAlgorithm(op.algorithm, "algorithm"),
                checkCryptoKey(op.key, "key"),
                checkBufferSource(op.data, "data")>>),
        [NoActionProto EXCEPT
            !.action = IF type = "encrypt" THEN "crypto/subtle/encrypt"
                       ELSE "crypto/subtle/decrypt",
            !.providerID = ServiceId,
            !.algorithm = prepareAlgorithm(op.algorithm),
            !.key = op.key,
            !.data = toArrayBuffer(op.data)])

\* lines 38 and 63, algProto.public.exportProto(): a `public` that is no
\* CryptoKeyProto has no such method, and the call throws
exportProtoCall(k) ==
    IF k.kind = "CryptoKeyProto" THEN NoError ELSE TypeError("exportProto")

\* lines 36-38 and 61-63: the algorithm the action carries, its `public`
\* replaced by that key's wire form
DeriveAlgorithm(alg) ==
    [prepareAlgorithm(alg) EXCEPT !.public = exportProto(@)]

\* deriveBits: lines 29-45; line 37 checks the prepared algorithm object
deriveBits(op) ==
    ClientPrepared(
        First(<<checkAlgorithm(op.algorithm, "algorithm"),
                checkCryptoKey(op.key, "baseKey"),
                checkPrimitive(op.length, "number", "length"),
                checkCryptoKey(prepareAlgorithm(op.algorithm), "algorithm.public"),
                exportProtoCall(prepareAlgorithm(op.algorithm).public)>>),
        [NoActionProto EXCEPT
            !.action = "crypto/subtle/deriveBits",
            !.providerID = ServiceId,
            !.algorithm = DeriveAlgorithm(op.algorithm),
            !.key = op.key,
            !.length = op.length.value])

\* deriveKey: lines 52-73
deriveKey(op) ==
    ClientPrepared(
        First(<<checkAlgorithm(op.algorithm, "algorithm"),
                checkCryptoKey(op.key, "baseKey"),
                checkAlgorithm(op.algorithm2, "algorithm"),
                checkPrimitive(op.extractable, "boolean", "extractable"),
                checkArray(op.keyUsages, "keyUsages"),
                checkCryptoKey(prepareAlgorithm(op.algorithm), "algorithm.public"),
                exportProtoCall(prepareAlgorithm(op.algorithm).public)>>),
        [NoActionProto EXCEPT
            !.action = "crypto/subtle/deriveKey",
            !.providerID = ServiceId,
            !.algorithm = DeriveAlgorithm(op.algorithm),
            !.algorithm2 = prepareAlgorithm(op.algorithm2),
            !.key = op.key,
            !.extractable = op.extractable.value,
            !.keyUsages = op.keyUsages.list])

\* Variant: the Digest action is filled without the data
DigestActionNoData(algProto, rawData) ==
    [NoActionProto EXCEPT
        !.action = "crypto/subtle/digest",
        !.algorithm = algProto,
        !.providerID = ServiceId]

\* digest, lines 98-102: the Digest action
DigestAction(algProto, rawData) ==
    [NoActionProto EXCEPT
        !.action = "crypto/subtle/digest",
        !.algorithm = algProto,
        !.data = rawData,
        !.providerID = ServiceId]

\* digest: lines 80-87 and 98-102
digest(op) ==
    ClientPrepared(
        First(<<checkAlgorithm(op.algorithm, "algorithm"),
                checkBufferSource(op.data, "data")>>),
        DigestAction(prepareAlgorithm(op.algorithm), toArrayBuffer(op.data)))

\* generateKey: lines 112-126
generateKey(op) ==
    ClientPrepared(
        First(<<checkAlgorithm(op.algorithm, "algorithm"),
                checkPrimitive(op.extractable, "boolean", "extractable"),
                checkArray(op.keyUsages, "keyUsages")>>),
        [NoActionProto EXCEPT
            !.action = "crypto/subtle/generateKey",
            !.providerID = ServiceId,
            !.algorithm = prepareAlgorithm(op.algorithm),
            !.extractable = op.extractable.value,
            !.keyUsages = op.keyUsages.list])

\* exportKey: lines 140-149
exportKey(op) ==
    ClientPrepared(
        First(<<checkPrimitive(op.format, "string", "format"),
                checkCryptoKey(op.key, "key")>>),
        [NoActionProto EXCEPT
            !.action = "crypto/subtle/exportKey",
            !.providerID = ServiceId,
            !.format = op.format.value,
            !.key = op.key])

\* importKey, lines 169-175: the key data as it is sent
ImportKeyData(format, keyData) ==
    IF format.value = "jwk" THEN Utf8Bytes(JsonStringify(keyData))
    ELSE toArrayBuffer(keyData)

\* importKey: lines 160-184
importKey(op) ==
    ClientPrepared(
        First(<<checkPrimitive(op.format, "string", "format"),
                checkAlgorithm(op.algorithm, "algorithm"),
                checkPrimitive(op.extractable, "boolean", "extractable"),
                checkArray(op.keyUsages, "keyUsages"),
                IF op.format.value = "jwk" THEN NoError
                ELSE checkBufferSource(op.data, "keyData")>>),
        [NoActionProto EXCEPT
            !.action = "crypto/subtle/importKey",
            !.providerID = ServiceId,
            !.algorithm = prepareAlgorithm(op.algorithm),
            !.data = ImportKeyData(op.format, op.data),
            !.format = op.format.value,
            !.extractable = op.extractable.value,
            !.keyUsages = op.keyUsages.list])

\* sign: lines 191-206
sign(op) ==
    ClientPrepared(
        First(<<checkAlgorithm(op.algorithm, "algorithm"),
                checkCryptoKey(op.key, "key"),
                checkBufferSource(op.data, "data")>>),
        [NoActionProto EXCEPT
            !.action = "crypto/subtle/sign",
            !.providerID = ServiceId,
            !.algorithm = prepareAlgorithm(op.algorithm),
            !.key = op.key,
            !.data = toArrayBuffer(op.data)])

\* verify: lines 213-232
verify(op) ==
    ClientPrepared(
        First(<<checkAlgorithm(op.algorithm, "algorithm"),
                checkCryptoKey(op.key, "key"),
                checkBufferSource(op.data2, "signature"),
                checkBufferSource(op.data, "data")>>),
        [NoActionProto EXCEPT
            !.action = "crypto/subtle/verify",
            !.providerID = ServiceId,
            !.algorithm = prepareAlgorithm(op.algorithm),
            !.key = op.key,
            !.data = toArrayBuffer(op.data),
            !.data2 = toArrayBuffer(op.data2)])

\* wrapKey: lines 239-255
wrapKey(op) ==
    ClientPrepared(
        First(<<checkPrimitive(op.format, "string", "format"),
                checkCryptoKey(op.key, "key"),
                checkCryptoKey(op.key2, "wrappingKey"),
                checkAlgorithm(op.algorithm, "wrapAlgorithm")>>),
        [NoActionProto EXCEPT
            !.action = "crypto/subtle/wrapKey",
            !.providerID = ServiceId,
            !.algorithm = prepareAlgorithm(op.algorithm),
            !.key = op.key,
            !.key2 = op.key2,
            !.format = op.format.value])

\* Variant: unwrapKey sends without checking the wrapped key
unwrapKeyUnchecked(op) ==
    ClientPrepared(
        First(<<checkPrimitive(op.format, "string", "format")>>),
        [NoActionProto EXCEPT
            !.action = "crypto/subtle/unwrapKey",
            !.providerID = ServiceId])

\* unwrapKey: lines 262-286
unwrapKey(op) ==
    ClientPrepared(
        First(<<checkPrimitive(op.format, "string", "format"),
                checkBufferSource(op.data, "wrappedKey"),
                checkCryptoKey(op.key, "unwrappingKey"),
                checkAlgorithm(op.algorithm, "unwrapAlgorithm"),
                checkAlgorithm(op.algorithm2, "unwrappedKeyAlgorithm"),
                checkPrimitive(op.extractable, "boolean", "extractable"),
                checkArray(op.keyUsages, "keyUsages")>>),
        [NoActionProto EXCEPT
            !.action = "crypto/subtle/unwrapKey",
            !.providerID = ServiceId,
            !.format = op.format.value,
            !.algorithm = prepareAlgorithm(op.algorithm),
            !.algorithm2 = prepareAlgorithm(op.algorithm2),
            !.key = op.key,
            !.data = toArrayBuffer(op.data),
            !.extractable = op.extractable.value,
            !.keyUsages = op.keyUsages.list])

\* the method a call names, up to its request
ClientPrepare(op) ==
    CASE op.name = "encrypt"     -> encryptData(op, "encrypt")
      [] op.name = "decrypt"     -> encryptData(op, "decrypt")
      [] op.name = "deriveBits"  -> deriveBits(op)
      [] op.name = "deriveKey"   -> deriveKey(op)
      [] op.name = "digest"      -> digest(op)
      [] op.name = "generateKey" -> generateKey(op)
      [] op.name = "exportKey"   -> exportKey(op)
      [] op.name = "importKey"   -> importKey(op)
      [] op.name = "sign"        -> sign(op)
      [] op.name = "verify"      -> verify(op)
      [] op.name = "wrapKey"     -> wrapKey(op)
      [] op.name = "unwrapKey"   -> unwrapKey(op)

\* ---- what the service answers (its subtle handlers and the providers)
RawBytes(b) == [NoPayload EXCEPT !.bytes = b]

\* the required fields of an encoded CryptoKeyProto and CryptoKeyPairProto
KeyFields == {"id", "type", "algorithm", "extractable", "usages"}
PairFields == {"privateKey", "publicKey"}
CryptoKeyPayload(alg, usages) ==
    [bytes |-> <<>>, fields |-> KeyFields, shape |-> "key", algorithm |-> alg,
     usages |-> usages]
CryptoKeyPairPayload(alg, usages) ==
    [bytes |-> <<>>, fields |-> PairFields, shape |-> "pair", algorithm |-> alg,
     usages |-> usages]

\* a digest: deterministic in the algorithm's name and the data (the
\* function itself stands for the primitive)
Hash(name, data) == <<IF name = "SHA-256" THEN 32 ELSE 20, Len(data)>> \o data

\* self.crypto.subtle.digest(algorithm, rawData), when it resolves
NativeDigest(alg, rawData) == Hash(alg.name, rawData)
\* the provider's digest for a Digest action
ProviderDigest(a) == Hash(a.algorithm.name, a.data)

\* asymmetric algorithms generate a pair, the others a single key
Asymmetric(name) == name = "RSA-PSS"

VerifyPayloads == {<<>>, <<0>>, <<1>>, <<0, 1>>, <<2, 0>>}

\* the data of a successful Result for an action
ServiceData(a) ==
    CASE a.action = "crypto/subtle/digest" -> {RawBytes(ProviderDigest(a))}
      [] a.action = "crypto/subtle/generateKey" ->
            {IF Asymmetric(a.algorithm.name)
             THEN CryptoKeyPairPayload(a.algorithm.name, a.keyUsages)
             ELSE CryptoKeyPayload(a.algorithm.name, a.keyUsages),
             RawBytes(<<1>>)}
      [] a.action = "crypto/subtle/exportKey" ->
            IF a.format = "jwk"
            THEN {RawBytes(Utf8Bytes(x)) : x \in Texts(MaxText) \ {<<>>}}
            ELSE {RawBytes(<<1>>)}
      [] a.action = "crypto/subtle/importKey" ->
            {CryptoKeyPayload(a.algorithm.name, a.keyUsages)}
      [] a.action \in {"crypto/subtle/deriveKey", "crypto/subtle/unwrapKey"} ->
            {CryptoKeyPayload(a.algorithm2.name, a.keyUsages)}
      [] a.action = "crypto/subtle/verify" ->
            {RawBytes(b) : b \in VerifyPayloads}
      [] OTHER -> {RawBytes(<<1, 0>>)}

\* client.send(action) resolves with the Result's data or rejects with its
\* error
ServiceAnswers(a) ==
    {[error |-> ProviderError, data |-> NoPayload]}
    \cup {[error |-> NoError, data |-> d] : d \in ServiceData(a)}

\* ---- what the client makes of the result
\* CryptoKeyProto.importProto / CryptoKeyPairProto.importProto: decoding
\* needs the schema's required fields and ignores the others
CryptoKeyImport(payload) ==
    IF KeyFields \subseteq payload.fields
    THEN Resolve("CryptoKey", payload, FALSE)
    ELSE Reject(Err("BadParameters", <<"CryptoKeyProto">>))
CryptoKeyPairImport(payload) ==
    IF PairFields \subseteq payload.fields
    THEN Resolve("CryptoKeyPair", payload, FALSE)
    ELSE Reject(Err("BadParameters", <<"CryptoKeyPairProto">>))

\* Variant: generateKey imports a single key and does not fall back
GenerateKeyResultKeyOnly(payload) == CryptoKeyImport(payload)

\* generateKey, lines 129-137: try the pair, on a throw import the key
GenerateKeyResult(payload) ==
    IF CryptoKeyPairImport(payload).kind = "resolve"
    THEN CryptoKeyPairImport(payload)
    ELSE CryptoKeyImport(payload)

\* Variant: verify answers by the last byte of the payload
VerifyResultLastByte(payload) ==
    Resolve("boolean", NoPayload,
            Len(payload.bytes) > 0 /\ payload.bytes[Len(payload.bytes)] # 0)

\* verify, line 236: !!(new Uint8Array(result)[0])
VerifyResult(payload) ==
    Resolve("boolean", NoPayload,
            Len(payload.bytes) > 0 /\ payload.bytes[1] # 0)

\* exportKey, lines 153-157
ExportKeyResult(format, payload) ==
    IF format.value = "jwk"
    THEN Resolve("jwk", RawBytes(JsonParse(ToBinary(payload.bytes)).bytes), FALSE)
    ELSE Resolve("ArrayBuffer", payload, FALSE)

\* the value a method returns for the result it received
ClientResult(op, payload) ==
    CASE op.name = "generateKey" -> GenerateKeyResult(payload)
      [] op.name = "verify" -> VerifyResult(payload)
      [] op.name = "exportKey" -> ExportKeyResult(op.format, payload)
      [] op.name \in {"importKey", "deriveKey", "unwrapKey"} ->
            CryptoKeyImport(payload)
      [] OTHER -> Resolve("ArrayBuffer", payload, FALSE)

\* ---- the steps of a call
\* digest, line 90: if (self.crypto)
UseNativeDigest(op) == op.name = "digest" /\ op.selfCrypto

\* how the native attempt of digest goes on: with a value to return, or
\* with the request
NativeResolved(value) ==
    [send |-> FALSE, outcome |-> Resolve("ArrayBuffer", RawBytes(value), FALSE)]

\* Variant: a failed native digest is thrown to the caller
NativeRejectedThrown(error) == [send |-> FALSE, outcome |-> Reject(error)]

\* digest, lines 93-95: the catch warns and goes on to the request
NativeRejected(error) == [send |-> TRUE, outcome |-> NoOutcome]

NativeError == Err("NotSupportedError", <<"Cannot do native digest">>)

\* A method is called: its checks and its preparation run; it rejects, goes
\* to the native digest, or sends its action.
ClientCall(op) ==
    /\ clientPc = "idle"
    /\ clientOp' = op
    /\ LET p == ClientPrepare(op)
       IN  IF p.error # NoError
           THEN /\ clientOutcome' = Reject(p.error)
                /\ clientPc' = "done"
                /\ UNCHANGED clientSent
           ELSE IF UseNativeDigest(op)
           THEN /\ clientPc' = "native"
                /\ UNCHANGED <<clientSent, clientOutcome>>
           ELSE /\ clientSent' = Append(clientSent, p.action)
                /\ clientPc' = "sent"
                /\ UNCHANGED clientOutcome
    /\ UNCHANGED <<clientNative, clientAnswer>>
    /\ UNCHANGED serviceVars

\* await self.crypto.subtle.digest(algorithm, rawData) resolves or rejects
ClientNativeDigest ==
    /\ clientPc = "native"
    /\ \E ok \in BOOLEAN :
         LET n == IF ok
                  THEN NativeResolved(NativeDigest(clientOp.algorithm,
                                          toArrayBuffer(clientOp.data)))
                  ELSE NativeRejected(NativeError)
         IN  /\ clientNative' = IF ok THEN "resolved" ELSE "rejected"
             /\ clientOutcome' = n.outcome
             /\ IF n.send
                THEN /\ clientSent' =
                          Append(clientSent, ClientPrepare(clientOp).action)
                     /\ clientPc' = "sent"
                ELSE /\ clientPc' = "done"
                     /\ UNCHANGED clientSent
    /\ UNCHANGED <<clientOp, clientAnswer>>
    /\ UNCHANGED serviceVars

\* await this.service.client.send(action) resolves or rejects, and the
\* method returns what it makes of the result
ClientReceive ==
    /\ clientPc = "sent"
    /\ \E answer \in ServiceAnswers(clientSent[Len(clientSent)]) :
         /\ clientAnswer' = answer
         /\ clientOutcome' = IF answer.error # NoError THEN Reject(answer.error)
                             ELSE ClientResult(clientOp, answer.data)
    /\ clientPc' = "done"
    /\ UNCHANGED <<clientOp, clientSent, clientNative>>
    /\ UNCHANGED serviceVars

\* the caller has its value; the client is ready for the next call
ClientReturn ==
    /\ clientPc = "done"
    /\ clientPc' = "idle"
    /\ clientOp' = OpDefault
    /\ clientSent' = <<>>
    /\ clientNative' = "none"
    /\ clientAnswer' = NoAnswer
    /\ clientOutcome' = NoOutcome
    /\ UNCHANGED serviceVars

NextClient ==
    \/ \E op \in ClientInputs : ClientCall(op)
    \/ ClientNativeDigest
    \/ ClientReceive
    \/ ClientReturn

\* the client's SubtleCrypto, one call at a time
SpecClient == Init /\ [][NextClient]_vars

\* ------------------------------------------------------------------ claims
Done(s) == pc[s] = "done"
\* the step in which Session s receives an Action
Dispatched(s) == pc[s] = "idle" /\ pc'[s] # "idle"
\* the provider's getItem returned a key to the handler of Session s
GetItemFound(s) ==
    /\ action[s].code = "keyStorage/getItem"
    /\ call[s].method = "getItem"
    /\ ~trace[s].threw
    /\ key[s] # 0

\* C1: when the provider's keyStorage.getItem returned a key, the Result is
\* emitted only after the key was added to the Handle Registry under the
\* action's provider id: at that moment the registry holds the item the
\* handler inserted, and the Result's data is the projection of exactly that
\* registry entry (unless serialising the projection itself failed).
C1_GetItemRegistersBeforeResult ==
    \A s \in Sessions :
        (Done(s) /\ GetItemFound(s)) =>
            /\ added[s] \in DOMAIN memoryStorage
            /\ memoryStorage[added[s]] =
                 ServiceCryptoItem(added[s], key[s], action[s].providerID)
            /\ \/ result[s].error = ExportError /\ result[s].data = NoData
               \/ /\ result[s].error = NoError
                  /\ result[s].data = ToProto(memoryStorage[added[s]])
                  /\ result[s].data.id \in DOMAIN memoryStorage
                  /\ result[s].data.providerID = action[s].providerID

\* a getItem Result carrying a handle has been emitted
C1_Witness ==
    \E s \in Sessions :
        Done(s) /\ GetItemFound(s) /\ result[s].data.type = "key"

\* C2, the invariant part: the registry holds, under every id, the key that
\* was inserted under it, and a setItem or indexOf handler that resolved a
\* handle id holds that same key.
C2_SameObject ==
    /\ \A id \in DOMAIN memoryStorage :
          /\ memoryStorage[id].id = id
          /\ memoryStorage[id].item = inserted[id]
          /\ inserted[id] # 0
    /\ \A s \in Sessions :
          (/\ action[s].code \in {"keyStorage/setItem", "keyStorage/indexOf"}
           /\ \/ pc[s] = "call"
              \/ Done(s) /\ call[s].method # "none")
          => (key[s] # 0 /\ key[s] = inserted[action[s].item])

\* C2, the step part: a setItem or indexOf for a handle id that is in the
\* registry when it is dispatched resolves it to the inserted key; one for an
\* id that is not (never inserted, or removed since) fails with
\* HandleNotFound; and a removed id is never filled again.
C2_Resolution ==
    /\ \A s \in Sessions :
          (/\ Dispatched(s)
           /\ action'[s].code \in {"keyStorage/setItem", "keyStorage/indexOf"}
           /\ action'[s].wellFormed
           /\ action'[s].providerID \in ProviderIds)
          => IF action'[s].item \in DOMAIN memoryStorage
             THEN /\ pc'[s] = "call"
                  /\ key'[s] = inserted[action'[s].item]
             ELSE /\ pc'[s] = "done"
                  /\ result'[s].error.code = "HandleNotFound"
    /\ \A id \in HandleIds :
          (id \in DOMAIN memoryStorage' /\ id \notin DOMAIN memoryStorage)
          => inserted[id] = 0

\* C2: every handle inserted by a getItem resolves, in any later setItem or
\* indexOf of any Session, to the key that was inserted, until it is removed
\* or the registry is cleared; after that, resolution fails with
\* HandleNotFound.
C2_HandleResolvesUntilRemoved == [](C2_SameObject) /\ [][C2_Resolution]_vars

\* a handler has resolved a handle while another inserted handle is gone
C2_Witness ==
    \E s \in Sessions, id \in HandleIds :
        /\ pc[s] = "call"
        /\ action[s].code = "keyStorage/setItem"
        /\ key[s] = inserted[action[s].item]
        /\ inserted[id] # 0
        /\ id \notin DOMAIN memoryStorage

\* C3, the invariant part: the Result of an Action whose code is none of the
\* six key-storage codes is the ActionNotImplemented error naming that code.
C3_ErrorNamesCode ==
    \A s \in Sessions :
        (Done(s) /\ action[s].code \notin KeyStorageCodes) =>
            /\ result[s].error.code = "ActionNotImplemented"
            /\ result[s].error.message =
                 <<"Action '", action[s].code, "' is not implemented">>
            /\ result[s].data = NoData
            /\ call[s] = NoCall
            /\ ~trace[s].lookup

\* C3, the step part: handling such an Action takes one step, which leaves
\* the registry and the providers' storages as they were.
C3_Frame ==
    \A s \in Sessions :
        (Dispatched(s) /\ action'[s].code \notin KeyStorageCodes) =>
            /\ pc'[s] = "done"
            /\ memoryStorage' = memoryStorage
            /\ keyStorage' = keyStorage

\* C3: an Action whose code is none of the six key-storage codes yields an
\* ActionNotImplemented error whose message names the code, and the Handle
\* Registry and the providers' key storages are unchanged by it.
C3_UnknownActionNotImplemented == [](C3_ErrorNamesCode) /\ [][C3_Frame]_vars

\* the Result of an Action of another service has been emitted
C3_Witness ==
    \E s \in Sessions :
        /\ Done(s)
        /\ action[s].code = "certStorage/keys"
        /\ result[s].error.code = "ActionNotImplemented"

HasData(s) == result[s].data # NoData
HasError(s) == result[s].error # NoError

\* C4 as stated: every Result carries exactly one of {data, error}, never
\* both and never neither, and exactly one Result is produced per Action.
C4_ExactlyOneOfDataError ==
    /\ \A s \in Sessions : Done(s) => (HasData(s) # HasError(s))
    /\ \A i \in ActionIds : emitted[i] <= 1

\* the Actions whose handling has ended
Finished(i) ==
    /\ i < nextAction
    /\ \A s \in Sessions : action[s].id = i => Done(s)

\* the cases in which the handler stores data in its ResultProto
StoresData(s) ==
    \/ action[s].code \in {"keyStorage/setItem", "keyStorage/keys"}
    \/ action[s].code = "keyStorage/getItem" /\ key[s] # 0
    \/ /\ action[s].code = "keyStorage/indexOf"
       /\ key[s] \in keyStorage[action[s].providerID]

\* C4, amended: every Result carries at most one of {data, error}; a Result
\* without error carries data exactly when the handler stored some (getItem
\* that found a key, setItem, keys, indexOf that found an index) and carries
\* neither for removeItem, clear and a getItem or indexOf that found
\* nothing; exactly one Result is produced per Action.
C4_AtMostOneOfDataError ==
    /\ \A s \in Sessions :
          Done(s) =>
            /\ ~(HasData(s) /\ HasError(s))
            /\ ~HasError(s) => (HasData(s) <=> StoresData(s))
    /\ \A i \in ActionIds :
          /\ emitted[i] <= 1
          /\ Finished(i) <=> emitted[i] = 1

\* a removeItem has ended with a Result that has neither data nor error
C4_Witness ==
    \E s \in Sessions :
        /\ Done(s)
        /\ action[s].code = "keyStorage/removeItem"
        /\ ~HasData(s)
        /\ ~HasError(s)
        /\ emitted[action[s].id] = 1

\* C5: for every key-storage Action the provider_id is resolved before any
\* other handler logic: when it does not resolve, the Action fails with
\* ProviderNotFound and neither a registry lookup nor a provider storage
\* call has been made.
C5_ProviderResolvedFirst ==
    \A s \in Sessions :
        (/\ Done(s)
         /\ action[s].code \in KeyStorageCodes
         /\ action[s].wellFormed
         /\ action[s].providerID \notin ProviderIds)
        => /\ result[s].error.code = "ProviderNotFound"
           /\ ~trace[s].lookup
           /\ call[s] = NoCall

\* C6 as stated: a setItem or indexOf whose handle id is not in the registry
\* fails with HandleNotFound, makes no provider call and changes nothing.
C6_Original ==
    \A s \in Sessions :
        (/\ Dispatched(s)
         /\ action'[s].code \in {"keyStorage/setItem", "keyStorage/indexOf"}
         /\ action'[s].wellFormed
         /\ action'[s].item \notin DOMAIN memoryStorage)
        => /\ pc'[s] = "done"
           /\ result'[s].error.code = "HandleNotFound"
           /\ call'[s] = NoCall
           /\ keyStorage' = keyStorage
           /\ memoryStorage' = memoryStorage
\* C6 (as stated): every setItem or indexOf whose handle id is not in the
\* registry fails with HandleNotFound, calls no provider and changes nothing.
C6_HandleNotFound == [][C6_Original]_vars

\* C6, amended: a setItem or indexOf whose handle id is not in the registry
\* fails with a resolution error, HandleNotFound, except that an indexOf
\* whose provider_id does not resolve either fails with ProviderNotFound
\* (indexOf resolves the provider first); no provider call is made and the
\* providers' storages and the registry are unchanged.
C6_Amended ==
    \A s \in Sessions :
        (/\ Dispatched(s)
         /\ action'[s].code \in {"keyStorage/setItem", "keyStorage/indexOf"}
         /\ action'[s].wellFormed
         /\ action'[s].item \notin DOMAIN memoryStorage)
        => /\ pc'[s] = "done"
           /\ result'[s].data = NoData
           /\ result'[s].error.code =
                IF /\ action'[s].code = "keyStorage/indexOf"
                   /\ action'[s].providerID \notin ProviderIds
                THEN "ProviderNotFound" ELSE "HandleNotFound"
           /\ call'[s] = NoCall
           /\ keyStorage' = keyStorage
           /\ memoryStorage' = memoryStorage
\* C6 (amended): such an action fails with HandleNotFound, or with
\* ProviderNotFound when it is an indexOf whose provider id does not resolve
\* either; it calls no provider and leaves storage and registry unchanged.
C6_ResolutionError == [][C6_Amended]_vars

\* an indexOf for an unregistered handle id has failed with HandleNotFound
C6_Witness ==
    \E s \in Sessions :
        /\ Done(s)
        /\ action[s].code = "keyStorage/indexOf"
        /\ action[s].item \notin DOMAIN memoryStorage
        /\ result[s].error.code = "HandleNotFound"

\* C7: the dispatcher never branches on provider variant: the call it makes
\* to keyStorage.setItem, with the same Session and key, passes the same
\* arguments and optional parameters whichever provider the id resolves to.
C7_NoVariantBranch ==
    \A s \in Sessions :
        call[s].method = "setItem" =>
            \A crypto \in ProviderIds :
                SetItemOptions(s, crypto, call[s].arg) = call[s].options

\* C8: whenever a getItem ends in an error, the Handle Registry holds no
\* entry that was added by that Action.
C8_NoOrphanOnFailure ==
    \A s \in Sessions :
        (Done(s) /\ action[s].code = "keyStorage/getItem" /\ HasError(s))
        => added[s] \notin DOMAIN memoryStorage

C11_Step ==
    \A id \in DOMAIN memoryStorage :
        /\ id \in DOMAIN memoryStorage' =>
              /\ memoryStorage'[id].providerID = memoryStorage[id].providerID
              /\ memoryStorage'[id].item = memoryStorage[id].item
        /\ algorithm'[memoryStorage[id].item] = algorithm[memoryStorage[id].item]

\* C11: a handle's descriptive fields are fixed at insertion: no step of a
\* key-storage action changes the provider id of an entry that is in the
\* Handle Registry, the key it refers to, or the algorithm of that live key
\* (a key's usages and extractable flag are constants of the key).
C11_FieldsFixedAtInsertion == [][C11_Step]_vars

\* ---- claims about the client
ClientDone(name) == clientPc = "done" /\ clientOp.name = name
\* the bytes the data argument of the call covers
CoveredBytes ==
    SubSeq(clientOp.data.bytes, clientOp.data.byteOffset + 1,
           clientOp.data.byteOffset + clientOp.data.byteLength)

C13_NativeDigestFirst ==
    clientOp.name = "digest" =>
        /\ clientNative # "none" => clientOp.selfCrypto
        /\ (clientOp.selfCrypto /\ clientSent # <<>>) => clientNative = "rejected"
        /\ clientNative = "resolved" =>
              /\ clientSent = <<>>
              /\ clientPc = "done"
              /\ clientOutcome =
                   Resolve("ArrayBuffer",
                           RawBytes(Hash(clientOp.algorithm.name, CoveredBytes)),
                           FALSE)
        /\ Len(clientSent) <= 1
        /\ clientNative = "rejected" => Len(clientSent) = 1
        /\ clientSent # <<>> =>
              /\ clientSent[1].action = "crypto/subtle/digest"
              /\ clientSent[1].algorithm.name = clientOp.algorithm.name
              /\ clientSent[1].data = CoveredBytes
              /\ clientSent[1].providerID = ServiceId
        /\ clientOutcome.kind = "reject" =>
              /\ clientOutcome.error # NativeError
              /\ \/ clientSent = <<>> /\ clientOutcome.error.code = "TypeError"
                 \/ clientSent # <<>> /\ clientOutcome.error = clientAnswer.error

\* the native digest failed, one Digest action went out and its result came
\* back as the value
C13_Witness ==
    /\ ClientDone("digest")
    /\ clientNative = "rejected"
    /\ Len(clientSent) = 1
    /\ clientOutcome.kind = "resolve"

\* C14: generateKey sends exactly one GenerateKey action and returns the
\* shape the service produced: a key pair for a pair payload, a single key
\* for a single-key payload (after the pair import failed), never one for
\* the other and never an error for either; only a payload of neither shape
\* or a failed request rejects.
C14_GenerateKeyShape ==
    clientOp.name = "generateKey" =>
        /\ Len(clientSent) <= 1
        /\ clientPc = "sent" => Len(clientSent) = 1
        /\ clientSent # <<>> =>
              /\ clientSent[1].action = "crypto/subtle/generateKey"
              /\ clientSent[1].providerID = ServiceId
        /\ (clientPc = "done" /\ clientSent # <<>>) =>
              IF clientAnswer.error # NoError
              THEN clientOutcome = Reject(clientAnswer.error)
              ELSE CASE clientAnswer.data.shape = "pair" ->
                          clientOutcome =
                            Resolve("CryptoKeyPair", clientAnswer.data, FALSE)
                     [] clientAnswer.data.shape = "key" ->
                          clientOutcome =
                            Resolve("CryptoKey", clientAnswer.data, FALSE)
                     [] OTHER -> clientOutcome.kind = "reject"

\* a generateKey whose result was a pair has returned a pair
C14_Witness ==
    /\ ClientDone("generateKey")
    /\ clientAnswer.data.shape = "pair"
    /\ clientOutcome.type = "CryptoKeyPair"

\* C15: generateKey, exportKey and importKey round-trip: importKey of
\* exported material with the same format, algorithm and usages yields a
\* handle with that algorithm and those usages; and for the jwk format the
\* client's encoding on import (FromUtf8String of JSON.stringify) and its
\* decoding on export (JSON.parse of ToBinary) are inverse to each other:
\* decoding the key data an importKey sent gives back the JsonWebKey, and
\* encoding the JsonWebKey an exportKey returned gives back the payload.
C15_ExportImportRoundTrip ==
    /\ (ClientDone("importKey") /\ clientSent # <<>>
          /\ clientAnswer.error = NoError) =>
          /\ clientOutcome.type = "CryptoKey"
          /\ clientOutcome.payload.algorithm = clientOp.algorithm.name
          /\ clientOutcome.payload.usages = clientOp.keyUsages.list
    /\ (clientOp.name = "importKey" /\ clientOp.format.value = "jwk"
          /\ clientOp.data.kind = "jwk" /\ clientSent # <<>>) =>
          ExportKeyResult(clientOp.format, RawBytes(clientSent[1].data))
            = Resolve("jwk", RawBytes(clientOp.data.bytes), FALSE)
    /\ (ClientDone("exportKey") /\ clientOp.format.value = "jwk"
          /\ clientOutcome.kind = "resolve") =>
          ImportKeyData(clientOp.format, JsonParse(clientOutcome.payload.bytes))
            = clientAnswer.data.bytes

\* C18: verify returns a boolean for every result payload: true exactly
\* when the payload's first byte is not zero, false when it is zero or the
\* payload is empty; the payload itself is never returned.
C18_VerifyBoolean ==
    (ClientDone("verify") /\ clientSent # <<>> /\ clientAnswer.error = NoError)
    => /\ clientOutcome.kind = "resolve"
       /\ clientOutcome.type = "boolean"
       /\ clientOutcome.payload = NoPayload
       /\ clientOutcome.bool =
            IF clientAnswer.data.bytes = <<>> THEN FALSE
            ELSE clientAnswer.data.bytes[1] # 0

\* verify has returned false for a payload whose first byte is zero and
\* whose second is not
C18_Witness ==
    /\ ClientDone("verify")
    /\ clientAnswer.data.bytes = <<0, 1>>
    /\ clientOutcome.type = "boolean"
    /\ ~clientOutcome.bool

\* the parameters each method declares
ParametersOf(name) ==
    CASE name \in {"encrypt", "decrypt", "sign"} -> {"algorithm", "key", "data"}
      [] name = "verify" -> {"algorithm", "key", "data2", "data"}
      [] name = "digest" -> {"algorithm", "data"}
      [] name = "generateKey" -> {"algorithm", "extractable", "keyUsages"}
      [] name = "importKey" ->
            {"format", "keyData", "algorithm", "extractable", "keyUsages"}
      [] name = "exportKey" -> {"format", "key"}
      [] name = "wrapKey" -> {"format", "key", "key2", "algorithm"}
      [] name = "unwrapKey" ->
            {"format", "data", "key", "algorithm", "algorithm2", "extractable",
             "keyUsages"}
      [] name = "deriveKey" ->
            {"algorithm", "key", "algorithm2", "extractable", "keyUsages"}
      [] name = "deriveBits" -> {"algorithm", "key", "length"}
      [] OTHER -> {}

\* the argument passed for a parameter has the type the parameter declares
\* (key data in the jwk format is any object)
WellTyped(op, param) ==
    CASE param \in {"algorithm", "algorithm2"} ->
            op[param].kind \in {"string", "object"}
      [] param \in {"key", "key2"} -> op[param].kind = "CryptoKeyProto"
      [] param \in {"data", "data2"} -> op[param].kind \in {"ArrayBuffer", "view"}
      [] param = "keyData" ->
            \/ op.format.kind = "string" /\ op.format.value = "jwk"
            \/ op.data.kind \in {"ArrayBuffer", "view"}
      [] param = "format" -> op.format.kind = "string"
      [] param = "extractable" -> op.extractable.kind = "boolean"
      [] param = "keyUsages" -> op.keyUsages.kind = "array"
      [] param = "length" -> op.length.kind = "number"

\* C20: in every SubtleCrypto method the argument checks run before anything
\* is sent: a call with an argument of the wrong type rejects with the
\* check's error, sends no action and (for digest) attempts no native
\* digest; any call rejected by a check has sent nothing; and a call sends
\* at most one action, which carries the provider id of the client's service.
C20_ChecksBeforeSend ==
    /\ (clientPc # "idle"
          /\ \E param \in ParametersOf(clientOp.name) : ~WellTyped(clientOp, param))
       => /\ clientPc = "done"
          /\ clientOutcome.kind = "reject"
          /\ clientOutcome.error.code = "TypeError"
          /\ clientSent = <<>>
          /\ clientNative = "none"
          /\ clientAnswer = NoAnswer
    /\ (clientOutcome.kind = "reject" /\ clientOutcome.error.code = "TypeError")
       => clientSent = <<>> /\ clientNative = "none"
    /\ Len(clientSent) <= 1
    /\ \A i \in 1..Len(clientSent) : clientSent[i].providerID = ServiceId
    /\ (clientPc \in {"native", "sent"}
          \/ (clientPc = "done" /\ clientOutcome.error.code # "TypeError"))
       => \A param \in ParametersOf(clientOp.name) : WellTyped(clientOp, param)

\* an unwrapKey whose last argument alone is of the wrong type was rejected
\* with nothing sent
C20_Witness ==
    /\ ClientDone("unwrapKey")
    /\ clientOp.keyUsages.kind # "array"
    /\ \A param \in ParametersOf("unwrapKey") \ {"keyUsages"} :
          WellTyped(clientOp, param)
    /\ clientOutcome.kind = "reject"
    /\ clientSent = <<>>

\* ---- sign and verify as the service answers them for a handle
\* a signature binds the key and the data; verification recomputes it
ProviderSign(k, data) == <<k>> \o data
ProviderVerify(k, signature, data) == signature = ProviderSign(k, data)
HasUsage(k, usage) == \E i \in 1..Len(KeyUsages(k)) : KeyUsages(k)[i] = usage

\* the Sign action: the handle is resolved, the provider signs
ServiceSign(items, id, data) ==
    IF id \in DOMAIN items /\ HasUsage(items[id].item, "sign")
    THEN RawBytes(ProviderSign(items[id].item, data))
    ELSE NoPayload
\* the Verify action: one byte, 1 for true and 0 for false
ServiceVerify(items, id, signature, data) ==
    IF id \in DOMAIN items /\ HasUsage(items[id].item, "verify")
    THEN RawBytes(IF ProviderVerify(items[id].item, signature, data)
                  THEN <<1>> ELSE <<0>>)
    ELSE NoPayload

SignedData == {<<>>, <<1>>, <<0, 1>>}

\* the provider call of Session s resolves in this step
CallResolves(s, code) ==
    /\ pc[s] = "call"
    /\ action[s].code = code
    /\ pc'[s] # "call"
    /\ ~trace'[s].threw

\* C16, the state part: a handle that a getItem returned is in the Handle
\* Registry and refers to the key stored under the storage key asked for;
\* for a key that may sign and verify, the client's verify of the signature
\* that sign returned for the same handle and data is true.
C16_HandleUsable ==
    \A s \in Sessions :
        (Done(s) /\ action[s].code = "keyStorage/getItem"
           /\ result[s].data # NoData) =>
            LET h == result[s].data.id
            IN  /\ h \in DOMAIN memoryStorage
                /\ memoryStorage[h].item = action[s].key
                /\ memoryStorage[h].providerID = action[s].providerID
                /\ (HasUsage(action[s].key, "sign")
                      /\ HasUsage(action[s].key, "verify")) =>
                     \A d \in SignedData :
                        VerifyResult(
                            ServiceVerify(memoryStorage, h,
                                ServiceSign(memoryStorage, h, d).bytes, d)).bool

\* C16, the step part: a setItem that returns puts the key of its handle in
\* the provider's storage and answers with its storage key; a storage key
\* leaves a provider's storage only by a removeItem of it or a clear on that
\* provider; and a getItem that returns finds the key exactly when its
\* storage key is in the provider's storage.
C16_StoredUntilRemoved ==
    /\ \A s \in Sessions :
          CallResolves(s, "keyStorage/setItem") =>
            /\ key[s] \in keyStorage'[action[s].providerID]
            /\ result'[s].data = FromUtf8String(key[s])
            /\ result'[s].error = NoError
    /\ \A p \in ProviderIds : \A k \in keyStorage[p] \ keyStorage'[p] :
          \E s \in Sessions :
            /\ action[s].providerID = p
            /\ \/ CallResolves(s, "keyStorage/clear")
               \/ CallResolves(s, "keyStorage/removeItem") /\ action[s].key = k
    /\ \A s \in Sessions :
          CallResolves(s, "keyStorage/getItem") =>
            key'[s] = IF action[s].key \in keyStorage[action[s].providerID]
                      THEN action[s].key ELSE 0

C17_Step ==
    \A s \in Sessions :
        CallResolves(s, "keyStorage/removeItem") =>
            LET p == action[s].providerID
                k == action[s].key
            IN  /\ pc'[s] = "done"
                /\ result'[s].error = NoError
                /\ memoryStorage' = memoryStorage
                /\ keyStorage' = [keyStorage EXCEPT ![p] = @ \ {k}]
                /\ k \notin keyStorage'[p]
                /\ k \notin keyStorage[p] => keyStorage' = keyStorage

\* C17: a removeItem naming a storage key that the provider's storage does
\* not hold completes with a Result without error and leaves the provider's
\* storage and the Handle Registry unchanged; repeating a removeItem gives
\* the state that doing it once gives.
C17_RemoveItemIdempotent == [][C17_Step]_vars

\* the first Action ever, a removeItem on the provider whose storage is
\* empty, has completed without error
C17_Witness ==
    \E s \in Sessions :
        /\ Done(s)
        /\ action[s].code = "keyStorage/removeItem"
        /\ action[s].id = 1
        /\ action[s].providerID = "pv"
        /\ call[s].method = "removeItem"
        /\ ~trace[s].threw
        /\ result[s] = NoResult
        /\ keyStorage["pv"] = {}

\* C19, the step: the Handle Registry changes only in the step in which a
\* getItem that found a key adds its item, and then by exactly one new
\* entry; a getItem that found no key ends with absent data and adds
\* nothing; no entry is ever removed or replaced, whatever removeItem or
\* clear do to the providers' storages.
C19_Step ==
    /\ \A id \in DOMAIN memoryStorage :
          id \in DOMAIN memoryStorage' /\ memoryStorage'[id] = memoryStorage[id]
    /\ memoryStorage' # memoryStorage =>
          \E s \in Sessions :
            /\ action[s].code = "keyStorage/getItem"
            /\ pc[s] = "got" /\ key[s] # 0 /\ pc'[s] = "export"
            /\ added'[s] \notin DOMAIN memoryStorage
            /\ DOMAIN memoryStorage' = DOMAIN memoryStorage \cup {added'[s]}
    /\ \A s \in Sessions :
          (pc[s] = "got" /\ pc'[s] # "got") =>
            IF key[s] # 0
            THEN Cardinality(DOMAIN memoryStorage')
                   = Cardinality(DOMAIN memoryStorage) + 1
            ELSE /\ memoryStorage' = memoryStorage
                 /\ pc'[s] = "done"
                 /\ result'[s] = NoResult

\* C19: among the key-storage actions only a getItem that finds a key
\* changes the Handle Registry, adding exactly one entry; setItem,
\* removeItem, keys, indexOf and clear never add or remove an entry, so a
\* handle obtained earlier still resolves after its storage key was removed
\* or the key storage was cleared.
C19_OnlyGetItemAdds == [][C19_Step]_vars

\* a clear has returned, and the registry still holds a handle whose key is
\* no longer in its provider's storage
C19_Witness ==
    \E s \in Sessions : \E id \in DOMAIN memoryStorage :
        /\ Done(s)
        /\ call[s].method = "clear"
        /\ ~trace[s].threw
        /\ call[s].crypto = memoryStorage[id].providerID
        /\ memoryStorage[id].item \notin keyStorage[memoryStorage[id].providerID]

\* ---- deriveBits and deriveKey
\* the call under way is a derivation
Deriving == clientPc # "idle" /\ clientOp.name \in {"deriveBits", "deriveKey"}
\* its algorithm carries a `public` that is a key handle
CarriesPublic == clientOp.algorithm.public.kind = "CryptoKeyProto"

\* C21, the part about refusals: a derivation sends an action only when its
\* algorithm carries a `public` key handle, the action then has the wire
\* form of that handle as its algorithm.public, and a derivation whose
\* algorithm has no `public` member is rejected with nothing sent.
C21_NoPublicRejects ==
    Deriving =>
        /\ \A i \in 1..Len(clientSent) :
              /\ CarriesPublic
              /\ clientSent[i].algorithm.public = exportProto(clientOp.algorithm.public)
        /\ clientOp.algorithm.public = NoPublic =>
              /\ clientPc = "done"
              /\ clientOutcome.kind = "reject"
              /\ clientSent = <<>>

C21_RejectedWithPublic ==
    /\ ClientDone("deriveBits")
    /\ CarriesPublic
    /\ \A param \in ParametersOf("deriveBits") : WellTyped(clientOp, param)
    /\ clientOutcome = Reject(TypeError("algorithm.public"))
    /\ clientSent = <<>>

\* ---- the optional members of getItem
\* the Session's handler has called the provider's keyStorage.getItem
GetItemCalled(s) ==
    action[s].code = "keyStorage/getItem" /\ call[s].method = "getItem"

\* C22: the getItem handler passes `extractable` on to the provider's
\* keyStorage.getItem only when it is true: with extractable false and with
\* extractable omitted the provider is called with the same arguments, the
\* third one undefined.  An empty algorithm is passed as undefined, one that
\* is not empty as its plain Algorithm; a usages list that is present is
\* passed as it is, also when it is the empty list.
C22_GetItemForwards ==
    \A s \in Sessions :
        GetItemCalled(s) =>
            LET p == action[s].params
                f == call[s].filters
            IN  /\ call[s].crypto = action[s].providerID
                /\ call[s].arg = action[s].key
                /\ p.extractable = "true" => f.extractable = "true"
                /\ p.extractable \in {"false", "undefined"} =>
                      /\ f.extractable = "undefined"
                      /\ call[s] =
                           [call[s] EXCEPT !.filters =
                               GetItemFilters([p EXCEPT !.extractable = "undefined"])]
                /\ p.algorithm.name = "" => f.algorithm = UndefinedAlgorithm
                /\ p.algorithm.name # "" =>
                      f.algorithm = [name |-> p.algorithm.name, proto |-> FALSE]
                /\ p.keyUsages.kind = "array" => f.keyUsages = p.keyUsages
                /\ p.keyUsages.kind = "undefined" => f.keyUsages = UndefinedUsages

\* the provider was called for a getItem with extractable false, an empty
\* algorithm and a usages list
C22_Witness ==
    \E s \in Sessions :
        /\ GetItemCalled(s)
        /\ pc[s] = "got"
        /\ action[s].params.extractable = "false"
        /\ action[s].params.algorithm = EmptyAlgorithm
        /\ action[s].params.keyUsages.list = <<"sign", "verify">>
        /\ call[s].filters.extractable = "undefined"
        /\ call[s].filters.keyUsages.list = <<"sign", "verify">>

====
